---- MODULE Spec2Model ----
(***************************************************************************)
(* A model of the operator precedence parser of src/parse.py: the token    *)
(* classifiers, the precedence table, the lexer and the shift-reduce       *)
(* machine of class Parser, one action per iteration of the driving loop.  *)
(*                                                                         *)
(* Python values are encoded with their dynamic type:                      *)
(*   a str        is  Str(cs), cs the sequence of its characters;          *)
(*   None         is  None;                                                *)
(*   a 3-tuple    is  Tuple3(a, b, c);                                     *)
(*   a list       is  a sequence.                                          *)
(* A character is a one-character string; a character outside ASCII is     *)
(* named by its code point ("U+00E9").                                     *)
(***************************************************************************)
EXTENDS Integers, Sequences, FiniteSets, TLC

VARIABLES obj, pc, input, result, carried, last, steps, via, ctok, cres

vars == <<obj, pc, input, result, carried, last, steps, via, ctok, cres>>

(***************************************************************************)
(* Bounds of the model.                                                    *)
(***************************************************************************)
\* longest token sequence of an input of Spec
MaxToks == 4
\* most operators of a well-formed input of SpecExpr
MaxOps == 3
\* longest token handed to the classifiers in SpecClassify
MaxTokLen == 2
\* longest token sequence of an input of SpecSeq
MaxSmallToks == 3

(***************************************************************************)
(* Python values.                                                          *)
(***************************************************************************)
None == [none |-> TRUE]

Str(cs) == [str |-> cs]

Tuple3(a, b, c) == [left |-> a, op |-> b, right |-> c]

\* bool(v) of a value that is a str, a tuple or None
Truthy(v) == v # None /\ v # Str(<<>>)

(***************************************************************************)
(* Characters, with the classes Python's str methods give them.            *)
(***************************************************************************)
AsciiDigits == {"0", "1"}

AsciiLetters == {"x", "a"}

\* SUPERSCRIPT TWO: str.isdigit() holds of it, int() rejects it
UnicodeDigits == {"U+00B2"}

\* LATIN SMALL LETTER E WITH ACUTE: str.isalpha() holds of it
UnicodeLetters == {"U+00E9"}

OpChars == {"*", "/", "+", "-"}

Whitespace == {" ", "\t"}

OtherChars == {"?", "(", ")"}

Chars ==
    AsciiDigits \cup AsciiLetters \cup UnicodeDigits \cup UnicodeLetters
        \cup OpChars \cup Whitespace \cup OtherChars

\* str.isdigit(): non-empty and every character is a digit
isdigit(token) ==
    /\ Len(token.str) > 0
    /\ \A i \in 1..Len(token.str) : token.str[i] \in AsciiDigits \cup UnicodeDigits

\* str.isalpha(): non-empty and every character is a letter
isalpha(token) ==
    /\ Len(token.str) > 0
    /\ \A i \in 1..Len(token.str) : token.str[i] \in AsciiLetters \cup UnicodeLetters

(***************************************************************************)
(* The precedence table and the classifiers.                               *)
(***************************************************************************)
\* mutant: the ranks of the table exchanged
OPERATORS_swapped ==
    (Str(<<"*">>) :> 1) @@ (Str(<<"/">>) :> 1) @@ (Str(<<"+">>) :> 2) @@ (Str(<<"-">>) :> 2)

OPERATORS ==
    (Str(<<"*">>) :> 2) @@ (Str(<<"/">>) :> 2) @@ (Str(<<"+">>) :> 1) @@ (Str(<<"-">>) :> 1)

\* OPERATORS[op] raises KeyError for a key the table does not hold
takes_precedence_raises(op1, op2) ==
    op1 \notin DOMAIN OPERATORS \/ op2 \notin DOMAIN OPERATORS

\* mutant: the strict comparison, which associates to the right
takes_precedence_strict(op1, op2) == OPERATORS[op1] > OPERATORS[op2]

takes_precedence(op1, op2) == OPERATORS[op1] >= OPERATORS[op2]

valid_op(token) == token \in DOMAIN OPERATORS

\* mutant: off by one in the length test
valid_arg_long(token) == Len(token.str) > 1 /\ (isdigit(token) \/ isalpha(token))

\* mutant: digits and letters mixed (str.isalnum)
valid_arg_alnum(token) ==
    /\ Len(token.str) > 0
    /\ \A i \in 1..Len(token.str) :
           token.str[i] \in AsciiDigits \cup UnicodeDigits \cup AsciiLetters \cup UnicodeLetters

valid_arg(token) == Len(token.str) > 0 /\ (isdigit(token) \/ isalpha(token))

(***************************************************************************)
(* The lexer: str.split() cuts at runs of whitespace and yields no empty   *)
(* token.                                                                  *)
(***************************************************************************)
RECURSIVE split(_, _, _)
\* the tokens of cs[i..], cur being the characters read of the current one
split(cs, i, cur) ==
    IF i > Len(cs)
    THEN IF cur = <<>> THEN <<>> ELSE <<Str(cur)>>
    ELSE IF cs[i] \in Whitespace
         THEN IF cur = <<>>
              THEN split(cs, i + 1, <<>>)
              ELSE <<Str(cur)>> \o split(cs, i + 1, <<>>)
         ELSE split(cs, i + 1, Append(cur, cs[i]))

lex(string) == split(string.str, 1, <<>>)

(***************************************************************************)
(* The shift-reduce machine.  m is the record of a Parser object's         *)
(* attributes; index counts from 0 as in the source.                       *)
(***************************************************************************)
\* the attributes after __init__
NewParser == [ops |-> None, args |-> None, state |-> None, index |-> None, toks |-> None]

\* the attributes parse sets before its loop
StartParse(string) ==
    [ops |-> <<>>, args |-> <<>>, state |-> "arg", index |-> 0, toks |-> lex(string)]

next_tok(m) == IF m.index < Len(m.toks) THEN m.toks[m.index + 1] ELSE None

peek_ops(m) == IF Len(m.ops) > 0 THEN m.ops[Len(m.ops)] ELSE None

\* the value popped, and the attributes after the pop
pop_ops(m) ==
    IF Len(m.ops) > 0
    THEN [value |-> m.ops[Len(m.ops)],
          m |-> [m EXCEPT !.ops = SubSeq(m.ops, 1, Len(m.ops) - 1)]]
    ELSE [value |-> None, m |-> m]

pop_args(m) ==
    IF Len(m.args) > 0
    THEN [value |-> m.args[Len(m.args)],
          m |-> [m EXCEPT !.args = SubSeq(m.args, 1, Len(m.args) - 1)]]
    ELSE [value |-> None, m |-> m]

terminated(m) == ~(Len(m.ops) > 0 \/ Truthy(next_tok(m)))

\* mutant: the operator is pushed and the index is not advanced
shift_op_noadvance(m) ==
    LET tok == next_tok(m) IN
    IF Truthy(tok) /\ valid_op(tok)
    THEN [m EXCEPT !.ops = Append(m.ops, tok), !.state = "arg"]
    ELSE [m EXCEPT !.state = "end"]

\* mutant: the operator is shifted and the machine stays in the op state
shift_op_stay(m) ==
    LET tok == next_tok(m) IN
    IF Truthy(tok) /\ valid_op(tok)
    THEN [m EXCEPT !.ops = Append(m.ops, tok), !.index = m.index + 1]
    ELSE [m EXCEPT !.state = "end"]

shift_op(m) ==
    LET tok == next_tok(m) IN
    IF Truthy(tok) /\ valid_op(tok)
    THEN [m EXCEPT !.ops = Append(m.ops, tok), !.index = m.index + 1, !.state = "arg"]
    ELSE [m EXCEPT !.state = "end"]

\* mutant: a failed shift of an argument does not set the end state
shift_arg_noend(m) ==
    LET tok == next_tok(m) IN
    IF Truthy(tok) /\ valid_arg(tok)
    THEN [m EXCEPT !.args = Append(m.args, tok), !.index = m.index + 1, !.state = "op"]
    ELSE m

\* mutant: the argument is consumed and not pushed
shift_arg_nopush(m) ==
    LET tok == next_tok(m) IN
    IF Truthy(tok) /\ valid_arg(tok)
    THEN [m EXCEPT !.index = m.index + 1, !.state = "op"]
    ELSE [m EXCEPT !.state = "end"]

shift_arg(m) ==
    LET tok == next_tok(m) IN
    IF Truthy(tok) /\ valid_arg(tok)
    THEN [m EXCEPT !.args = Append(m.args, tok), !.index = m.index + 1, !.state = "op"]
    ELSE [m EXCEPT !.state = "end"]

\* reducible hands the next token to takes_precedence unchecked
reducible_raises(m) ==
    /\ Truthy(peek_ops(m))
    /\ Truthy(next_tok(m))
    /\ takes_precedence_raises(peek_ops(m), next_tok(m))

\* mutant: the end of the input does not make the top operator reducible
reducible_noeof(m) ==
    /\ Truthy(peek_ops(m))
    /\ Truthy(next_tok(m))
    /\ takes_precedence(peek_ops(m), next_tok(m))

reducible(m) ==
    LET top_op == peek_ops(m) IN
    IF Truthy(top_op)
    THEN LET tok == next_tok(m) IN
         IF ~Truthy(tok) THEN TRUE ELSE takes_precedence(top_op, tok)
    ELSE FALSE

\* mutant: the operands in the order they were popped
reduce_swapped(m) ==
    LET p1 == pop_ops(m)
        p2 == pop_args(p1.m)
        p3 == pop_args(p2.m)
    IN  IF Truthy(p1.value) /\ Truthy(p2.value) /\ Truthy(p3.value)
        THEN [p3.m EXCEPT !.args = Append(p3.m.args, Tuple3(p2.value, p1.value, p3.value))]
        ELSE [p3.m EXCEPT !.state = "end"]

\* mutant: the popped right argument is dropped, the left one used twice
reduce_dupleft(m) ==
    LET p1 == pop_ops(m)
        p2 == pop_args(p1.m)
        p3 == pop_args(p2.m)
    IN  IF Truthy(p1.value) /\ Truthy(p2.value) /\ Truthy(p3.value)
        THEN [p3.m EXCEPT !.args = Append(p3.m.args, Tuple3(p3.value, p1.value, p3.value))]
        ELSE [p3.m EXCEPT !.state = "end"]

reduce(m) ==
    LET p1 == pop_ops(m)
        p2 == pop_args(p1.m)
        p3 == pop_args(p2.m)
        operator == p1.value
        arg1 == p2.value
        arg2 == p3.value
    IN  IF Truthy(operator) /\ Truthy(arg1) /\ Truthy(arg2)
        THEN [p3.m EXCEPT !.args = Append(p3.m.args, Tuple3(arg2, operator, arg1))]
        ELSE [p3.m EXCEPT !.state = "end"]

\* mutant: the result does not ask whether the machine terminated
parse_result_noterm(m) ==
    IF Len(m.args) = 1 THEN m.args[1] ELSE None

\* the value parse returns once its loop has ended
parse_result(m) ==
    IF terminated(m) /\ Len(m.args) = 1 THEN m.args[1] ELSE None

\* Parser.parse as a function of its input: the outcome of running the
\* machine from m until the loop ends or an exception leaves it
KeyError == [exc |-> "KeyError"]

RECURSIVE run(_)
run(m) ==
    IF m.state = "end" THEN [pc |-> "returned", result |-> parse_result(m)]
    ELSE IF m.state = "arg" THEN run(shift_arg(m))
    ELSE IF terminated(m) THEN run([m EXCEPT !.state = "end"])
    ELSE IF reducible_raises(m) THEN [pc |-> "raised", result |-> KeyError]
    ELSE IF reducible(m) THEN run(reduce(m))
    ELSE run(shift_op(m))

parse(string) == run(StartParse(string))

(***************************************************************************)
(* Input strings.                                                          *)
(***************************************************************************)
RECURSIVE JoinChars(_, _)
\* the characters of the tokens ts with sep between neighbours
JoinChars(ts, sep) ==
    IF ts = <<>> THEN <<>>
    ELSE IF Len(ts) = 1 THEN ts[1].str
    ELSE ts[1].str \o sep \o JoinChars(Tail(ts), sep)

SeqsUpTo(S, n) == UNION {[1..k -> S] : k \in 0..n}

ArgTokens == {Str(<<"0">>), Str(<<"x", "a">>)}

OpTokens == DOMAIN OPERATORS

BadTokens == {Str(<<"?">>)}

Tokens == ArgTokens \cup OpTokens \cup BadTokens

\* every token sequence of at most MaxToks tokens, written with single
\* spaces, and written with surrounding and doubled whitespace
Inputs ==
    {Str(JoinChars(ts, <<" ">>)) : ts \in SeqsUpTo(Tokens, MaxToks)}
        \cup {Str(<<"\t">> \o JoinChars(ts, <<" ", "\t">>) \o <<" ">>) :
                  ts \in SeqsUpTo(Tokens, MaxToks)}

\* arg (op arg)* with the given arguments and operators
Interleave(as, os) ==
    [i \in 1..(Len(as) + Len(os)) |-> IF i % 2 = 1 THEN as[(i + 1) \div 2] ELSE os[i \div 2]]

ExprInputs ==
    UNION {{Str(JoinChars(Interleave(as, os), <<" ">>)) :
               as \in [1..(k + 1) -> ArgTokens], os \in [1..k -> OpTokens]} :
           k \in 0..MaxOps}

\* inputs of each kind: empty, accepted, rejected by each shift, raising
SampleInputs ==
    {Str(JoinChars(ts, <<" ">>)) :
        ts \in {<<>>,
                <<Str(<<"0">>)>>,
                <<Str(<<"0">>), Str(<<"+">>)>>,
                <<Str(<<"0">>), Str(<<"x">>)>>,
                <<Str(<<"0">>), Str(<<"+">>), Str(<<"x">>)>>,
                <<Str(<<"0">>), Str(<<"+">>), Str(<<"x">>), Str(<<"*">>), Str(<<"0">>)>>,
                <<Str(<<"0">>), Str(<<"*">>), Str(<<"x">>), Str(<<"+">>), Str(<<"0">>)>>,
                <<Str(<<"0">>), Str(<<"+">>), Str(<<"x">>), Str(<<"?">>)>>}}

SmallTokens == {Str(<<"0">>), Str(<<"+">>), Str(<<"*">>), Str(<<"?">>)}

SmallInputs ==
    SampleInputs
        \cup {Str(JoinChars(ts, <<" ">>)) : ts \in SeqsUpTo(SmallTokens, MaxSmallToks)}

ClassifyTokens == {Str(cs) : cs \in SeqsUpTo(Chars, MaxTokLen)}

(***************************************************************************)
(* The state: Parser objects 1 and 2 (obj), where each one's parse call    *)
(* stands (pc: "new", "loop", "returned", "raised"), the string it was     *)
(* given (input) and what it gave back (result).  History: the number of   *)
(* stack entries the object held when the call began (carried), the tree   *)
(* whose flattening the call is parsing (last), the loop iterations of the *)
(* call (steps), the branch of the loop that set the end state (via:       *)
(* "none", "shift_arg", "terminated", "reduce", "shift_op").  ctok and     *)
(* cres: a token given to the classifiers and their answers.               *)
(***************************************************************************)
Insts == {1, 2}

Init ==
    /\ obj = [p \in Insts |-> NewParser]
    /\ pc = [p \in Insts |-> "new"]
    /\ input = [p \in Insts |-> None]
    /\ result = [p \in Insts |-> None]
    /\ carried = [p \in Insts |-> 0]
    /\ last = [p \in Insts |-> None]
    /\ steps = [p \in Insts |-> 0]
    /\ via = [p \in Insts |-> "none"]
    /\ ctok = None
    /\ cres = None

\* mutant: the two stacks are attributes of the class, shared by its instances
Store_shared(p, m) ==
    [q \in Insts |->
        IF q = p THEN m
        ELSE IF pc[q] = "new" THEN obj[q]
        ELSE [obj[q] EXCEPT !.ops = m.ops, !.args = m.args]]

\* the attributes are those of the instance: self.ops, self.args, ...
Store(p, m) == [obj EXCEPT ![p] = m]

\* mutant: parse does not empty the argument stack of the call before
Begin_keep(p, string, prev) ==
    /\ obj' = Store(p, [StartParse(string) EXCEPT
                            !.args = IF pc[p] = "new" THEN <<>> ELSE obj[p].args])
    /\ pc' = [pc EXCEPT ![p] = "loop"]
    /\ input' = [input EXCEPT ![p] = string]
    /\ result' = [result EXCEPT ![p] = None]
    /\ carried' = [carried EXCEPT
                      ![p] = IF pc[p] = "new" THEN 0
                             ELSE Len(obj[p].ops) + Len(obj[p].args)]
    /\ last' = [last EXCEPT ![p] = prev]
    /\ steps' = [steps EXCEPT ![p] = 0]
    /\ via' = [via EXCEPT ![p] = "none"]
    /\ UNCHANGED <<ctok, cres>>

\* parse up to its loop; prev is the tree the string was flattened from
Begin(p, string, prev) ==
    /\ obj' = Store(p, StartParse(string))
    /\ pc' = [pc EXCEPT ![p] = "loop"]
    /\ input' = [input EXCEPT ![p] = string]
    /\ result' = [result EXCEPT ![p] = None]
    /\ carried' = [carried EXCEPT
                      ![p] = IF pc[p] = "new" THEN 0
                             ELSE Len(obj[p].ops) + Len(obj[p].args)]
    /\ last' = [last EXCEPT ![p] = prev]
    /\ steps' = [steps EXCEPT ![p] = 0]
    /\ via' = [via EXCEPT ![p] = "none"]
    /\ UNCHANGED <<ctok, cres>>

Call(p, string) == Begin(p, string, None)

\* one iteration of the loop, through its branch how, leaving the attributes m
Iterate(p, m, how) ==
    /\ obj' = Store(p, m)
    /\ steps' = [steps EXCEPT ![p] = @ + 1]
    /\ via' = [via EXCEPT ![p] = IF m.state = "end" THEN how ELSE @]
    /\ UNCHANGED <<pc, input, result, carried, last, ctok, cres>>

ShiftArg(p) ==
    /\ pc[p] = "loop"
    /\ obj[p].state = "arg"
    /\ Iterate(p, shift_arg(obj[p]), "shift_arg")

Terminate(p) ==
    /\ pc[p] = "loop"
    /\ obj[p].state = "op"
    /\ terminated(obj[p])
    /\ Iterate(p, [obj[p] EXCEPT !.state = "end"], "terminated")

\* the KeyError of takes_precedence leaves reducible and parse
Raise(p) ==
    /\ pc[p] = "loop"
    /\ obj[p].state = "op"
    /\ ~terminated(obj[p])
    /\ reducible_raises(obj[p])
    /\ pc' = [pc EXCEPT ![p] = "raised"]
    /\ result' = [result EXCEPT ![p] = KeyError]
    /\ UNCHANGED <<obj, input, carried, last, steps, via, ctok, cres>>

Reduce(p) ==
    /\ pc[p] = "loop"
    /\ obj[p].state = "op"
    /\ ~terminated(obj[p])
    /\ ~reducible_raises(obj[p])
    /\ reducible(obj[p])
    /\ Iterate(p, reduce(obj[p]), "reduce")

ShiftOp(p) ==
    /\ pc[p] = "loop"
    /\ obj[p].state = "op"
    /\ ~terminated(obj[p])
    /\ ~reducible_raises(obj[p])
    /\ ~reducible(obj[p])
    /\ Iterate(p, shift_op(obj[p]), "shift_op")

Return(p) ==
    /\ pc[p] = "loop"
    /\ obj[p].state = "end"
    /\ pc' = [pc EXCEPT ![p] = "returned"]
    /\ result' = [result EXCEPT ![p] = parse_result(obj[p])]
    /\ UNCHANGED <<obj, input, carried, last, steps, via, ctok, cres>>

Done(p) == pc[p] \in {"returned", "raised"}

(***************************************************************************)
(* Spec: one parse of one Parser, on every input of Inputs.                *)
(***************************************************************************)
CallOnce == pc[1] = "new" /\ \E s \in Inputs : Call(1, s)

Next ==
    \/ CallOnce
    \/ ShiftArg(1)
    \/ Terminate(1)
    \/ Raise(1)
    \/ Reduce(1)
    \/ ShiftOp(1)
    \/ Return(1)

Spec == Init /\ [][Next]_vars

(***************************************************************************)
(* SpecExpr: one parse of one Parser, on every well-formed input of at     *)
(* most MaxOps operators and on the sample inputs; a returned tree is then *)
(* flattened to a string and parsed again by the same Parser.              *)
(***************************************************************************)
IsLeaf(t) == DOMAIN t = {"str"}

RECURSIVE FlattenPlain(_)
\* the in-order tokens of tree t, single spaces between them
FlattenPlain(t) ==
    IF IsLeaf(t) THEN t.str
    ELSE FlattenPlain(t.left) \o <<" ">> \o t.op.str \o <<" ">> \o FlattenPlain(t.right)

RECURSIVE FlattenParen(_)
\* the same with every operator application in parentheses
FlattenParen(t) ==
    IF IsLeaf(t) THEN t.str
    ELSE <<"(">> \o FlattenParen(t.left) \o <<" ">> \o t.op.str \o <<" ">>
             \o FlattenParen(t.right) \o <<")">>

CallExpr == pc[1] = "new" /\ \E s \in ExprInputs \cup SampleInputs : Call(1, s)

Reparse ==
    /\ pc[1] = "returned"
    /\ result[1] # None
    /\ last[1] = None
    /\ \E s \in {Str(FlattenPlain(result[1])), Str(FlattenParen(result[1]))} :
           Begin(1, s, result[1])

NextExpr ==
    \/ CallExpr
    \/ Reparse
    \/ ShiftArg(1)
    \/ Terminate(1)
    \/ Raise(1)
    \/ Reduce(1)
    \/ ShiftOp(1)
    \/ Return(1)

SpecExpr == Init /\ [][NextExpr]_vars

(***************************************************************************)
(* SpecSeq: Parser 1 is called again and again, each call after the one    *)
(* before has ended; a Parser 2 is then constructed and called once, with  *)
(* the string of Parser 1's last call.                                     *)
(***************************************************************************)
CallAgain ==
    /\ pc[1] \in {"new", "returned", "raised"}
    /\ pc[2] = "new"
    /\ \E s \in SmallInputs : Call(1, s)

CallFresh ==
    /\ Done(1)
    /\ pc[2] = "new"
    /\ Call(2, input[1])

NextSeq ==
    \/ CallAgain
    \/ CallFresh
    \/ \E p \in Insts :
          ShiftArg(p) \/ Terminate(p) \/ Raise(p) \/ Reduce(p) \/ ShiftOp(p) \/ Return(p)

SpecSeq == Init /\ [][NextSeq]_vars

(***************************************************************************)
(* SpecConc: Parsers 1 and 2 each parse one sample input, their loop       *)
(* iterations interleaved in every order.                                  *)
(***************************************************************************)
CallConc == \E p \in Insts : pc[p] = "new" /\ \E s \in SampleInputs : Call(p, s)

NextConc ==
    \/ CallConc
    \/ \E p \in Insts :
          ShiftArg(p) \/ Terminate(p) \/ Raise(p) \/ Reduce(p) \/ ShiftOp(p) \/ Return(p)

SpecConc == Init /\ [][NextConc]_vars

(***************************************************************************)
(* SpecClassify: valid_op and valid_arg applied to every token of at most  *)
(* MaxTokLen characters.                                                   *)
(***************************************************************************)
Choose ==
    /\ ctok = None
    /\ \E t \in ClassifyTokens : ctok' = t
    /\ UNCHANGED <<obj, pc, input, result, carried, last, steps, via, cres>>

Classify ==
    /\ ctok # None
    /\ cres = None
    /\ cres' = [op |-> valid_op(ctok), arg |-> valid_arg(ctok)]
    /\ UNCHANGED <<obj, pc, input, result, carried, last, steps, via, ctok>>

NextClassify == Choose \/ Classify

SpecClassify == Init /\ [][NextClassify]_vars

(***************************************************************************)
(* The claims.                                                             *)
(***************************************************************************)
\* the tokens of parser p's current call
Toks(p) == obj[p].toks

T(cs) == Str(cs)

AllIn(token, S) == \A i \in 1..Len(token.str) : token.str[i] \in S

LowOps == {T(<<"+">>), T(<<"-">>)}

HighOps == {T(<<"*">>), T(<<"/">>)}

\* the tokens the claims call valid operators and valid arguments
OperatorToken(t) == t \in LowOps \cup HighOps

ArgumentToken(t) ==
    /\ Len(t.str) > 0
    /\ \/ AllIn(t, AsciiDigits \cup UnicodeDigits)
       \/ AllIn(t, AsciiLetters \cup UnicodeLetters)

\* C1 (as claimed): parse never raises; every call that ends has returned,
\* with a tree or with None.
C1_Totality == \A p \in Insts : pc[p] # "raised"

\* the token sequences the claim lists as rejected
Rejected(t) ==
    \/ Len(t) = 0
    \/ Len(t) = 1 /\ OperatorToken(t[1])
    \/ Len(t) > 0 /\ OperatorToken(t[1])
    \/ Len(t) > 0 /\ OperatorToken(t[Len(t)])
    \/ \E i \in 1..Len(t) : ~OperatorToken(t[i]) /\ ~ArgumentToken(t[i])
    \/ \E i \in 1..(Len(t) - 1) : ArgumentToken(t[i]) /\ ArgumentToken(t[i + 1])

\* C2 (as claimed): on every input whose token sequence is empty, a single
\* operator, begins or ends with an operator, holds an invalid token or
\* holds two adjacent arguments, parse returns None and raises nothing.
C2_Rejection ==
    \A p \in Insts :
        (Done(p) /\ Rejected(Toks(p))) => (pc[p] = "returned" /\ result[p] = None)

\* the five tokens a o1 b o2 c, a, b, c valid arguments, o1, o2 operators
IsTwoOps(t) ==
    /\ Len(t) = 5
    /\ ArgumentToken(t[1]) /\ OperatorToken(t[2]) /\ ArgumentToken(t[3]) /\ OperatorToken(t[4])
    /\ ArgumentToken(t[5])

LeftNested(t) == Tuple3(Tuple3(t[1], t[2], t[3]), t[4], t[5])

RightNested(t) == Tuple3(t[1], t[2], Tuple3(t[3], t[4], t[5]))

\* C3: for valid arguments a, b, c and operators OP1, OP2 of equal rank,
\* parse of "a OP1 b OP2 c" returns ((a, OP1, b), OP2, c).
C3_LeftAssoc ==
    \A p \in Insts :
        (/\ Done(p)
         /\ IsTwoOps(Toks(p))
         /\ \/ {Toks(p)[2], Toks(p)[4]} \subseteq LowOps
            \/ {Toks(p)[2], Toks(p)[4]} \subseteq HighOps)
            => (pc[p] = "returned" /\ result[p] = LeftNested(Toks(p)))

C3_Witness ==
    /\ pc[1] = "returned"
    /\ IsTwoOps(Toks(1))
    /\ Toks(1)[2] = T(<<"-">>) /\ Toks(1)[4] = T(<<"+">>)
    /\ result[1] = LeftNested(Toks(1))

\* C4: for valid arguments a, b, c, L in {+, -} and H in {*, /}, parse of
\* "a L b H c" returns (a, L, (b, H, c)) and parse of "a H b L c" returns
\* ((a, H, b), L, c).
C4_Precedence ==
    \A p \in Insts :
        (Done(p) /\ IsTwoOps(Toks(p)))
            => /\ (Toks(p)[2] \in LowOps /\ Toks(p)[4] \in HighOps)
                    => (pc[p] = "returned" /\ result[p] = RightNested(Toks(p)))
               /\ (Toks(p)[2] \in HighOps /\ Toks(p)[4] \in LowOps)
                    => (pc[p] = "returned" /\ result[p] = LeftNested(Toks(p)))

C4_Witness ==
    /\ pc[1] = "returned"
    /\ IsTwoOps(Toks(1))
    /\ Toks(1)[2] = T(<<"-">>) /\ Toks(1)[4] = T(<<"/">>)
    /\ result[1] = RightNested(Toks(1))

\* arg (op arg)*
WellFormed(t) ==
    /\ Len(t) % 2 = 1
    /\ \A i \in 1..Len(t) : IF i % 2 = 1 THEN ArgumentToken(t[i]) ELSE OperatorToken(t[i])

RECURSIVE IsTree(_)
\* a valid argument, or an operator applied to two trees
IsTree(t) ==
    IF IsLeaf(t) THEN ArgumentToken(t)
    ELSE /\ DOMAIN t = {"left", "op", "right"}
         /\ OperatorToken(t.op)
         /\ IsTree(t.left)
         /\ IsTree(t.right)

\* C5: on every token sequence arg (op arg)* parse returns a tree, never
\* the failure value.
C5_Complete ==
    \A p \in Insts :
        (Done(p) /\ WellFormed(Toks(p))) => (pc[p] = "returned" /\ IsTree(result[p]))

C5_Witness ==
    /\ pc[1] = "returned"
    /\ WellFormed(Toks(1))
    /\ Len(Toks(1)) = 7
    /\ IsTree(result[1])

\* C6: parse of a single valid argument token t returns the leaf t itself,
\* parse of a single operator token returns None.
C6_SingleToken ==
    \A p \in Insts :
        (Done(p) /\ Len(Toks(p)) = 1)
            => /\ ArgumentToken(Toks(p)[1]) => (pc[p] = "returned" /\ result[p] = Toks(p)[1])
               /\ OperatorToken(Toks(p)[1]) => (pc[p] = "returned" /\ result[p] = None)

C6_Witness ==
    /\ pc[1] = "returned"
    /\ Toks(1) = <<T(<<"0">>)>>
    /\ result[1] = T(<<"0">>)

\* C7: whatever the earlier calls on a Parser were and however they ended,
\* a call returns what a freshly constructed Parser returns for the same
\* string.
C7_NoCarry ==
    (Done(1) /\ Done(2) /\ input[1] = input[2])
        => (pc[1] = pc[2] /\ result[1] = result[2])

\* Parser 1 began its call with two or more entries left on its stacks by
\* a call that failed or raised, and returned the tree the fresh Parser 2
\* returns
C7_Witness ==
    /\ pc[1] = "returned" /\ pc[2] = "returned"
    /\ carried[1] >= 2
    /\ input[1] = input[2]
    /\ result[1] # None
    /\ result[1] = result[2]

\* C8 (as claimed): a returned tree T, flattened to an infix string with
\* explicit parentheses and parsed again, gives a tree identical to T.
C8_RoundTripParen ==
    (Done(1) /\ last[1] # None /\ input[1] = Str(FlattenParen(last[1])))
        => (pc[1] = "returned" /\ result[1] = last[1])

\* C8 (amended): a returned tree T, flattened to its tokens in order with
\* single spaces and no parentheses and parsed again, gives a tree identical
\* to T; flattened with parentheses, it gives None unless T is a leaf.
C8_RoundTripPlain ==
    /\ (Done(1) /\ last[1] # None /\ input[1] = Str(FlattenPlain(last[1])))
           => (pc[1] = "returned" /\ result[1] = last[1])
    /\ (Done(1) /\ last[1] # None /\ ~IsLeaf(last[1])
            /\ input[1] = Str(FlattenParen(last[1])))
           => (pc[1] = "returned" /\ result[1] = None)

C8_Witness ==
    /\ pc[1] = "returned"
    /\ last[1] # None
    /\ ~IsLeaf(last[1])
    /\ ~IsLeaf(last[1].right)
    /\ input[1] = Str(FlattenPlain(last[1]))
    /\ result[1] = last[1]

\* parser p took the step
Acted(p) == pc'[p] # pc[p] \/ steps'[p] # steps[p]

\* C9: with the iterations of two parses on two Parsers interleaved in any
\* order, each call ends as it ends when run alone, and a step of one Parser
\* leaves the attributes, input and result of the other as they were.
C9_Isolated ==
    [][\A p \in Insts :
          /\ (pc'[p] \in {"returned", "raised"})
                => ([pc |-> pc'[p], result |-> result'[p]] = parse(input'[p]))
          /\ Acted(p)
                => \A q \in Insts \ {p} :
                      /\ obj'[q] = obj[q]
                      /\ input'[q] = input[q]
                      /\ result'[q] = result[q]]_vars

\* Parser 1 has returned a tree while Parser 2 is in the middle of its parse
C9_Witness ==
    /\ pc[1] = "returned"
    /\ result[1] # None
    /\ pc[2] = "loop"
    /\ steps[2] >= 2
    /\ obj[2].state # "end"
    /\ Len(obj[2].ops) > 0

C11_Balance ==
    \A p \in Insts :
        pc[p] # "new"
            => /\ obj[p].state = "op" => Len(obj[p].args) = Len(obj[p].ops) + 1
               /\ obj[p].state = "arg" => Len(obj[p].args) = Len(obj[p].ops)

\* after a reduce and the shift of a further operator: a tree on one stack,
\* an operator on the other, an argument expected
C11_Witness ==
    /\ pc[1] = "loop"
    /\ obj[1].state = "arg"
    /\ Len(obj[1].ops) = 1
    /\ Len(obj[1].args) = 1
    /\ ~IsLeaf(obj[1].args[1])

\* C12: whenever the loop invokes reduce, the operator stack holds at least
\* one element and the argument stack at least two, and reduce leaves the
\* machine in the op state: its failure branch is never taken.
C12_ReduceSafe ==
    [][\A p \in Insts :
          ENABLED Reduce(p)
              => /\ Len(obj[p].ops) >= 1
                 /\ Len(obj[p].args) >= 2
                 /\ Acted(p) => obj'[p].state = "op"]_vars

\* reduce is about to be invoked with a further token waiting
C12_Witness ==
    /\ ENABLED Reduce(1)
    /\ Len(obj[1].ops) = 1
    /\ Len(obj[1].args) = 2
    /\ obj[1].index < Len(obj[1].toks)

\* the test parse makes after its loop, on the attributes of parser p
PostTest(p) ==
    /\ Len(obj[p].ops) = 0
    /\ obj[p].index >= Len(obj[p].toks)
    /\ Len(obj[p].args) = 1

\* C13: parse returns a tree iff the machine entered the end state through
\* the termination check with exactly one element on the argument stack;
\* the test after the loop is true in exactly those runs, and in every run
\* that entered the end state through a failed shift_arg, shift_op or
\* reduce it is false and parse returns None.
C13_Success ==
    \A p \in Insts :
        pc[p] = "returned"
            => /\ result[p] # None <=> (via[p] = "terminated" /\ Len(obj[p].args) = 1)
               /\ PostTest(p) <=> (via[p] = "terminated" /\ Len(obj[p].args) = 1)
               /\ result[p] # None => result[p] = obj[p].args[1]
               /\ via[p] \in {"shift_arg", "shift_op", "reduce"}
                     => (~PostTest(p) /\ result[p] = None)

\* a run that entered the end state through a failed shift_op with exactly
\* one element on the argument stack, and returned None
C13_Witness ==
    /\ pc[1] = "returned"
    /\ via[1] = "shift_op"
    /\ Len(obj[1].args) = 1
    /\ result[1] = None

\* an iteration of the loop of parser p
Iteration(p) == pc[p] = "loop" /\ pc'[p] = "loop" /\ steps'[p] = steps[p] + 1

\* the three kinds of iteration the claim names
ShiftStep(p) == obj'[p].index = obj[p].index + 1 /\ obj'[p].state # "end"

ReduceStep(p) ==
    /\ Len(obj'[p].ops) = Len(obj[p].ops) - 1
    /\ obj'[p].index = obj[p].index

EndStep(p) == obj'[p].state = "end"

\* C14 (as claimed): on every token sequence the loop reaches the end
\* state, so a call is over only with the machine in it; every iteration
\* advances the cursor by exactly one, or takes exactly one operator off the
\* stack with the cursor unchanged, or sets the end state.
C14_Terminates ==
    [][\A p \in Insts :
          /\ pc'[p] \in {"returned", "raised"} => obj'[p].state = "end"
          /\ Iteration(p) => (ShiftStep(p) \/ ReduceStep(p) \/ EndStep(p))]_vars

\* C15 (as claimed): on an input of n tokens, n >= 0, the loop makes at
\* most 2 * n iterations.
C15_Bound ==
    \A p \in Insts : pc[p] # "new" => steps[p] <= 2 * Len(Toks(p))

\* C15 (amended): on an input of n >= 1 tokens the loop makes at most 2 * n
\* iterations; on the empty input it makes exactly one, the failed
\* shift_arg that sets the end state.
C15_BoundNonEmpty ==
    \A p \in Insts :
        pc[p] # "new"
            => /\ Len(Toks(p)) >= 1 => steps[p] <= 2 * Len(Toks(p))
               /\ Len(Toks(p)) = 0 => steps[p] <= 1
               /\ (Len(Toks(p)) = 0 /\ pc[p] = "returned") => steps[p] = 1

\* the bound is met: one token, two iterations
C15_Witness ==
    /\ pc[1] = "returned"
    /\ Len(Toks(1)) = 1
    /\ steps[1] = 2
    /\ result[1] # None

\* C16: with o on top of the operator stack and x below y on top of the
\* argument stack, reduce takes o, x and y off and pushes the one node
\* (x, o, y); what lies below them on either stack, the cursor, the tokens
\* and the state (op) are left as they were.
C16_ReduceFrame ==
    [][\A p \in Insts :
          (ENABLED Reduce(p) /\ Acted(p)
              /\ Len(obj[p].ops) >= 1 /\ Len(obj[p].args) >= 2)
              => LET m == obj[p]
                     n == obj'[p]
                     k == Len(m.ops)
                     a == Len(m.args)
                 IN  /\ n.ops = SubSeq(m.ops, 1, k - 1)
                     /\ n.args = Append(SubSeq(m.args, 1, a - 2),
                                        Tuple3(m.args[a - 1], m.ops[k], m.args[a]))
                     /\ n.index = m.index
                     /\ n.toks = m.toks
                     /\ n.state = "op"]_vars

\* a reduce has pushed a node above an argument, with an operator left below
C16_Witness ==
    /\ pc[1] = "loop"
    /\ obj[1].state = "op"
    /\ Len(obj[1].ops) = 1
    /\ Len(obj[1].args) = 2
    /\ IsLeaf(obj[1].args[1])
    /\ ~IsLeaf(obj[1].args[2])

\* the step of parser p from attributes m to n shifts the token at the
\* cursor onto the stack named by field (the other stack is other)
ShiftedOnto(m, n, mine, other) ==
    IF n.state # "end"
    THEN /\ mine[2] = Append(mine[1], m.toks[m.index + 1])
         /\ other[2] = other[1]
         /\ n.index = m.index + 1
    ELSE /\ mine[2] = mine[1]
         /\ other[2] = other[1]
         /\ n.index = m.index

\* C17: the cursor starts at 0, never decreases and never exceeds the number
\* of tokens; a successful shift_arg (shift_op) appends exactly the token at
\* the cursor to the argument (operator) stack, leaves the rest of that
\* stack and the whole other stack unchanged and advances the cursor by
\* exactly one; a failed shift changes only the state, to end.
C17_ShiftFrame ==
    [][\A p \in Insts :
          /\ (pc[p] # "loop" /\ pc'[p] = "loop") => obj'[p].index = 0
          /\ Iteration(p)
                => /\ obj'[p].index >= obj[p].index
                   /\ obj'[p].index <= Len(obj'[p].toks)
                   /\ obj'[p].toks = obj[p].toks
          /\ (Iteration(p) /\ obj[p].state = "arg")
                => /\ ShiftedOnto(obj[p], obj'[p], <<obj[p].args, obj'[p].args>>,
                                  <<obj[p].ops, obj'[p].ops>>)
                   /\ obj'[p].state \in {"op", "end"}
          /\ (Iteration(p) /\ ENABLED ShiftOp(p))
                => /\ ShiftedOnto(obj[p], obj'[p], <<obj[p].ops, obj'[p].ops>>,
                                  <<obj[p].args, obj'[p].args>>)
                   /\ obj'[p].state \in {"arg", "end"}]_vars

\* an operator has been shifted: it is the token before the cursor, on top
\* of the operator stack, and an argument is expected
C17_Witness ==
    /\ pc[1] = "loop"
    /\ obj[1].state = "arg"
    /\ obj[1].index = 2
    /\ obj[1].ops = <<obj[1].toks[2]>>
    /\ obj[1].args = <<obj[1].toks[1]>>

RECURSIVE InOrder(_)
\* the tokens of tree t in the order left, operator, right
InOrder(t) ==
    IF IsLeaf(t) THEN <<t>>
    ELSE InOrder(t.left) \o <<t.op>> \o InOrder(t.right)

RECURSIVE Weave(_, _)
\* the in-order tokens of the entries of as from bottom to top, the entries
\* of os from bottom to top between them
Weave(as, os) ==
    IF as = <<>> THEN os
    ELSE InOrder(Head(as))
            \o (IF os = <<>> THEN <<>> ELSE <<Head(os)>>)
            \o Weave(Tail(as), IF os = <<>> THEN <<>> ELSE Tail(os))

\* C18: in every reachable state the in-order flattenings of the argument
\* stack entries, bottom to top, with the operator stack entries, bottom to
\* top, between them, are exactly the consumed tokens toks[0 .. cursor);
\* the in-order traversal of every returned tree is the token sequence.
C18_TokenOrder ==
    \A p \in Insts :
        /\ pc[p] # "new"
              => Weave(obj[p].args, obj[p].ops) = SubSeq(Toks(p), 1, obj[p].index)
        /\ (pc[p] = "returned" /\ result[p] # None)
              => InOrder(result[p]) = Toks(p)

\* a tree of two operators over three different-looking positions has been
\* built and returned
C18_Witness ==
    /\ pc[1] = "returned"
    /\ result[1] # None
    /\ Len(Toks(1)) = 5
    /\ Toks(1)[1] # Toks(1)[3]
    /\ Toks(1)[2] # Toks(1)[4]
    /\ ~IsLeaf(result[1])

\* the precedence rank of an operator token: + and - below * and /
Rank(t) == IF t \in HighOps THEN 1 ELSE 0

\* C19: in every reachable state the ranks of the operators on the operator
\* stack are strictly increasing from bottom to top, an operator being
\* shifted only onto an empty stack or onto a top of strictly lower rank;
\* the operator stack never holds more than 2 operators and the argument
\* stack never more than 3 entries.
C19_OpsOrdered ==
    /\ [](\A p \in Insts :
            pc[p] # "new"
               => /\ \A i \in 1..Len(obj[p].ops) : OperatorToken(obj[p].ops[i])
                  /\ \A i, j \in 1..Len(obj[p].ops) :
                        i < j => Rank(obj[p].ops[i]) < Rank(obj[p].ops[j])
                  /\ Len(obj[p].ops) <= 2
                  /\ Len(obj[p].args) <= 3)
    /\ [][\A p \in Insts :
            (Iteration(p) /\ ENABLED ShiftOp(p) /\ obj'[p].state # "end")
               => \/ obj[p].ops = <<>>
                  \/ Rank(obj[p].ops[Len(obj[p].ops)])
                        < Rank(obj'[p].ops[Len(obj'[p].ops)])]_vars

\* both stacks are at their largest: a low operator under a high one and
\* three arguments
C19_Witness ==
    /\ pc[1] = "loop"
    /\ Len(obj[1].ops) = 2
    /\ Len(obj[1].args) = 3
    /\ obj[1].ops[1] \in LowOps
    /\ obj[1].ops[2] \in HighOps
    /\ obj[1].index < Len(Toks(1))

RECURSIVE Shaped(_)
\* at every operator node of tree t a right child that is an operator node
\* has a strictly greater rank and a left child that is one has a rank
\* greater than or equal
Shaped(t) ==
    IF IsLeaf(t) THEN TRUE
    ELSE /\ IsLeaf(t.right) \/ Rank(t.right.op) > Rank(t.op)
         /\ IsLeaf(t.left) \/ Rank(t.left.op) >= Rank(t.op)
         /\ Shaped(t.left)
         /\ Shaped(t.right)

RECURSIVE NoLowUnderHigh(_)
\* no * or / node of tree t has a + or - node as a child
NoLowUnderHigh(t) ==
    IF IsLeaf(t) THEN TRUE
    ELSE /\ t.op \in HighOps
            => /\ IsLeaf(t.left) \/ t.left.op \notin LowOps
               /\ IsLeaf(t.right) \/ t.right.op \notin LowOps
         /\ NoLowUnderHigh(t.left)
         /\ NoLowUnderHigh(t.right)

RECURSIVE NestsLeft(_)
\* operators of equal rank nest only to the left
NestsLeft(t) ==
    IF IsLeaf(t) THEN TRUE
    ELSE /\ IsLeaf(t.right) \/ Rank(t.right.op) # Rank(t.op)
         /\ NestsLeft(t.left)
         /\ NestsLeft(t.right)

\* C20: every returned tree has the shape above: right operator children of
\* strictly greater rank, left operator children of greater or equal rank,
\* so no * or / node over a + or - node and equal ranks nested to the left;
\* a H b L c H d gives ((a, H, b), L, (c, H, d)).
C20_TreeShape ==
    \A p \in Insts :
        (pc[p] = "returned" /\ result[p] # None)
           => /\ Shaped(result[p])
              /\ NoLowUnderHigh(result[p])
              /\ NestsLeft(result[p])
              /\ (/\ WellFormed(Toks(p))
                  /\ Len(Toks(p)) = 7
                  /\ Toks(p)[2] \in HighOps
                  /\ Toks(p)[4] \in LowOps
                  /\ Toks(p)[6] \in HighOps)
                    => result[p] =
                         Tuple3(Tuple3(Toks(p)[1], Toks(p)[2], Toks(p)[3]),
                                Toks(p)[4],
                                Tuple3(Toks(p)[5], Toks(p)[6], Toks(p)[7]))

\* a H b L c H d has been parsed
C20_Witness ==
    /\ pc[1] = "returned"
    /\ result[1] # None
    /\ Len(Toks(1)) = 7
    /\ Toks(1)[2] \in HighOps
    /\ Toks(1)[4] \in LowOps
    /\ Toks(1)[6] \in HighOps
    /\ ~IsLeaf(result[1].left)
    /\ ~IsLeaf(result[1].right)

====
